---- MODULE Spec2Model ----
(***************************************************************************)
(* Model of arisu's directive engine: the block segmenter (parseBlocks /   *)
(* blocksToString), the directive scanner and executor (handleResponse),   *)
(* and the four actions (PatchAction, EditAction, RunAction, ReadAction).  *)
(*                                                                         *)
(* A text is a sequence of lexemes.  File contents are sequences of single *)
(* characters; a backend response is a sequence whose lexemes are single   *)
(* characters or one of the fixed literals the scanner searches for        *)
(* ("<RUN>", "</RUN>", ..., "[TOOL_CALL]"), so an index into a text is a   *)
(* lexeme index and len(tag) is 1.                                         *)
(***************************************************************************)
EXTENDS Integers, Sequences, FiniteSets, TLC

VARIABLES
    pc,          \* control position of the program
    content,     \* SpecBlocks: the text handed to parseBlocks; SpecBatch: the file before the batch
    blocks,      \* SpecBlocks: []Block under construction / after an update
    patched,     \* SpecBlocks: TRUE once a block was replaced or deleted
    serialized,  \* SpecBlocks: result of blocksToString(blocks)
    reparsed,    \* SpecBlocks: parseBlocks(serialized)
    response,           \* handleResponse: the response argument
    remainingResponse,  \* handleResponse: unscanned suffix of response
    actions,            \* handleResponse: extracted actions, each with IsToolCall
    hasToolCall,        \* handleResponse: some tag was prefixed by [TOOL_CALL]
    trail,              \* bookkeeping: what the scan did with each active opening tag
    outputBuilder,      \* handleResponse: accumulated immediate results
    next,               \* handleResponse: index of the next action to execute
    executed,           \* log of Execute calls: confirmation asked, answer, result
    history,            \* client: conversation history ([]Message)
    provider,           \* which AIClient implementation is in use
    fs,                 \* files on disk: name -> content
    shell,              \* commands handed to bash -c, in order
    config,             \* Config.AutoEdit, Config.AutoRun
    sends,              \* number of SendMessage calls so far
    sendErr,            \* driving loop: the latest SendMessage returned an error
    autoSends,          \* bookkeeping: sends made by the tool loop since the last input
    steps,              \* runAgenticMode: the lines after the Steps: marker
    stepIdx,            \* runAgenticMode: index of the for loop over steps
    runCount,           \* runAgenticMode: non-blank steps met so far
    agentTrace          \* bookkeeping: the sends and handleResponse calls of runAgenticMode

blockVars == <<content, blocks, patched, serialized, reparsed>>
scanVars  == <<response, remainingResponse, actions, hasToolCall, trail>>
execVars  == <<outputBuilder, next, executed, history, fs, shell>>
loopVars  == <<sends, sendErr, autoSends>>
agentVars == <<steps, stepIdx, runCount, agentTrace>>
vars == <<pc, blockVars, scanVars, execVars, provider, config, loopVars, agentVars>>

\* ------------------------------------------------------------------ bounds
MaxLen == 5          \* longest text handed to parseBlocks
MaxPatchLen == 3     \* longest replacement content of a block update
MaxResp == 4         \* SpecScan tries every response of at most this many lexemes
MaxSends == 2        \* SendMessage calls in one run of Spec

\* ------------------------------------------------------------- text basics
Chars == {"a", "b", " ", "\n"}
PatchChars == {"x", " ", "\n"}

RECURSIVE TextsUpTo(_, _)
TextsUpTo(alphabet, n) ==
    IF n = 0 THEN {<<>>}
    ELSE LET shorter == TextsUpTo(alphabet, n - 1)
         IN  shorter \cup {Append(t, c) : t \in {s \in shorter : Len(s) = n - 1}, c \in alphabet}

\* unicode.IsSpace restricted to the characters a text can hold
IsSpace(c) == c \in {" ", "\t", "\n", "\r", "\f"}

RECURSIVE TrimLeft(_)
TrimLeft(s) == IF s # <<>> /\ IsSpace(Head(s)) THEN TrimLeft(Tail(s)) ELSE s

RECURSIVE TrimRight(_)
TrimRight(s) ==
    IF s # <<>> /\ IsSpace(s[Len(s)]) THEN TrimRight(SubSeq(s, 1, Len(s) - 1)) ELSE s

\* strings.TrimSpace
TrimSpace(s) == TrimRight(TrimLeft(s))

\* strings.Index(s, lexeme): 0-based index of the first occurrence, -1 if none
Index(s, lex) ==
    IF \E i \in 1..Len(s) : s[i] = lex
    THEN (CHOOSE i \in 1..Len(s) : s[i] = lex /\ \A j \in 1..(i - 1) : s[j] # lex) - 1
    ELSE -1

\* strings.SplitN(s, "\n", n) for n >= 1: at most n parts, the last unsplit
RECURSIVE SplitN(_, _)
SplitN(s, n) ==
    LET i == Index(s, "\n")
    IN  IF n = 1 \/ i = -1 THEN <<s>>
        ELSE <<SubSeq(s, 1, i)>> \o SplitN(SubSeq(s, i + 2, Len(s)), n - 1)

\* strings.Split(s, "\n"): n = -1, every separator splits
Split(s) == SplitN(s, Len(s) + 1)

\* ---------------------------------------------------------- block segmenter
Block(id, lines) == [ID |-> id, Lines |-> lines]

\* faulty variant: the flush after the loop is missing, so a text that does not end
\* in a blank line loses its last block
RECURSIVE parseBlocksLoop_NoFinalFlush(_, _, _, _)
parseBlocksLoop_NoFinalFlush(lines, i, bs, currentLines) ==
    IF i > Len(lines)
    THEN bs
    ELSE IF TrimSpace(lines[i]) = <<>>
         THEN IF Len(currentLines) > 0
              THEN parseBlocksLoop_NoFinalFlush(lines, i + 1, Append(bs, Block(Len(bs), currentLines)), <<>>)
              ELSE parseBlocksLoop_NoFinalFlush(lines, i + 1, bs, currentLines)
         ELSE parseBlocksLoop_NoFinalFlush(lines, i + 1, bs, Append(currentLines, lines[i]))

\* the for loop of parseBlocks over lines[i..], with its two accumulators
RECURSIVE parseBlocksLoop(_, _, _, _)
parseBlocksLoop(lines, i, bs, currentLines) ==
    IF i > Len(lines)
    THEN IF Len(currentLines) > 0
         THEN Append(bs, Block(Len(bs), currentLines))
         ELSE bs
    ELSE IF TrimSpace(lines[i]) = <<>>
         THEN IF Len(currentLines) > 0
              THEN parseBlocksLoop(lines, i + 1, Append(bs, Block(Len(bs), currentLines)), <<>>)
              ELSE parseBlocksLoop(lines, i + 1, bs, currentLines)
         ELSE parseBlocksLoop(lines, i + 1, bs, Append(currentLines, lines[i]))

parseBlocks(text) == parseBlocksLoop(Split(text), 1, <<>>, <<>>)

RECURSIVE writeLines(_)
writeLines(lines) ==
    IF lines = <<>> THEN <<>>
    ELSE Head(lines) \o <<"\n">> \o writeLines(Tail(lines))

\* faulty variant: no separator is written between blocks
RECURSIVE blocksToStringFrom_NoSeparator(_, _)
blocksToStringFrom_NoSeparator(bs, i) ==
    IF i > Len(bs) THEN <<>>
    ELSE writeLines(bs[i].Lines) \o blocksToStringFrom_NoSeparator(bs, i + 1)

\* faulty variant: the separator is written after every block, the last included
RECURSIVE blocksToStringFrom_TrailingSeparator(_, _)
blocksToStringFrom_TrailingSeparator(bs, i) ==
    IF i > Len(bs) THEN <<>>
    ELSE writeLines(bs[i].Lines) \o <<"\n">> \o blocksToStringFrom_TrailingSeparator(bs, i + 1)

RECURSIVE blocksToStringFrom(_, _)
blocksToStringFrom(bs, i) ==
    IF i > Len(bs) THEN <<>>
    ELSE writeLines(bs[i].Lines)
         \o (IF i - 1 < Len(bs) - 1 THEN <<"\n">> ELSE <<>>)
         \o blocksToStringFrom(bs, i + 1)

blocksToString(bs) == blocksToStringFrom(bs, 1)

\* PatchAction.Execute, "Update block": delete on blank content, else replace
\* faulty variant: the block after the addressed one is removed
deleteBlock_OffByOne(bs, id) == SubSeq(bs, 1, id + 1) \o SubSeq(bs, id + 3, Len(bs))

deleteBlock(bs, id) == SubSeq(bs, 1, id) \o SubSeq(bs, id + 2, Len(bs))

\* faulty variant: empty lines of the new content are dropped
replaceLines_NoEmptyLines(text) ==
    LET newLines == Split(text)
    IN  SelectSeq(newLines, LAMBDA line : line # <<>>)

replaceLines(text) ==
    LET newLines == Split(text)
    IN  IF Len(newLines) > 0 /\ newLines[Len(newLines)] = <<>>
        THEN SubSeq(newLines, 1, Len(newLines) - 1)
        ELSE newLines

\* faulty variant: a replacement drops the blocks after the addressed one
updateBlock_DropsRest(bs, id, text) ==
    IF TrimSpace(text) = <<>>
    THEN deleteBlock(bs, id)
    ELSE SubSeq([bs EXCEPT ![id + 1].Lines = replaceLines(text)], 1, id + 1)

updateBlock(bs, id, text) ==
    IF TrimSpace(text) = <<>>
    THEN deleteBlock(bs, id)
    ELSE [bs EXCEPT ![id + 1].Lines = replaceLines(text)]

\* -------------------------------------------------- SpecBlocks: pure functions
InitBlocks ==
    /\ pc = "input"
    /\ content \in TextsUpTo(Chars, MaxLen)
    /\ blocks = <<>>
    /\ patched = FALSE
    /\ serialized = <<>>
    /\ reparsed = <<>>
    /\ response = <<>> /\ remainingResponse = <<>> /\ actions = <<>> /\ trail = <<>>
    /\ hasToolCall = FALSE /\ outputBuilder = <<>> /\ next = 0
    /\ executed = <<>> /\ history = <<>> /\ provider = "grok"
    /\ fs = <<>> /\ shell = <<>>
    /\ config = [AutoEdit |-> FALSE, AutoRun |-> FALSE]
    /\ sends = 0 /\ sendErr = FALSE /\ autoSends = 0
    /\ steps = <<>> /\ stepIdx = 0 /\ runCount = 0 /\ agentTrace = <<>>

Segment ==
    /\ pc = "input"
    /\ blocks' = parseBlocks(content)
    /\ pc' = "parsed"
    /\ UNCHANGED <<content, patched, serialized, reparsed, scanVars, execVars, provider, config, loopVars, agentVars>>

UpdateBlock ==
    /\ pc = "parsed"
    /\ ~patched
    /\ \E id \in 0..(Len(blocks) - 1), text \in TextsUpTo(PatchChars, MaxPatchLen) :
          blocks' = updateBlock(blocks, id, text)
    /\ patched' = TRUE
    /\ UNCHANGED <<pc, content, serialized, reparsed, scanVars, execVars, provider, config, loopVars, agentVars>>

Serialize ==
    /\ pc = "parsed"
    /\ serialized' = blocksToString(blocks)
    /\ pc' = "serialized"
    /\ UNCHANGED <<content, blocks, patched, reparsed, scanVars, execVars, provider, config, loopVars, agentVars>>

Resegment ==
    /\ pc = "serialized"
    /\ reparsed' = parseBlocks(serialized)
    /\ pc' = "reparsed"
    /\ UNCHANGED <<content, blocks, patched, serialized, scanVars, execVars, provider, config, loopVars, agentVars>>

NextBlocks == Segment \/ UpdateBlock \/ Serialize \/ Resegment

SpecBlocks == InitBlocks /\ [][NextBlocks]_vars

\* ------------------------------------------------------- directive scanner
TOOLCALL == "[TOOL_CALL]"
OpenTag(tag) == "<" \o tag \o ">"
CloseTag(tag) == "</" \o tag \o ">"
Tags == {"PATCH", "EDIT", "RUN", "READ"}

\* strings.HasSuffix(s, lexeme)
HasSuffix(s, lex) == s # <<>> /\ s[Len(s)] = lex

\* strings.Contains(s, lexeme)
Contains(s, lex) == Index(s, lex) # -1

\* s[lo:hi] of Go, 0-based and half-open; the caller guarantees lo <= hi
Slice(s, lo, hi) == SubSeq(s, lo + 1, hi)

\* s[lo:] of Go
SliceFrom(s, lo) == SubSeq(s, lo + 1, Len(s))

Digits == {"0", "1", "2", "3", "4", "5", "6", "7", "8", "9"}
DigitVal(d) == CASE d = "0" -> 0 [] d = "1" -> 1 [] d = "2" -> 2 [] d = "3" -> 3
                 [] d = "4" -> 4 [] d = "5" -> 5 [] d = "6" -> 6 [] d = "7" -> 7
                 [] d = "8" -> 8 [] d = "9" -> 9

RECURSIVE DecimalVal(_)
DecimalVal(s) ==
    IF s = <<>> THEN 0 ELSE 10 * DecimalVal(SubSeq(s, 1, Len(s) - 1)) + DigitVal(s[Len(s)])

\* strconv.Atoi: optional sign, then one or more decimal digits
AtoiDigits(s) == IF s # <<>> /\ Head(s) \in {"+", "-"} THEN Tail(s) ELSE s
AtoiOk(s) == AtoiDigits(s) # <<>> /\ \A i \in 1..Len(AtoiDigits(s)) : AtoiDigits(s)[i] \in Digits
Atoi(s) == IF s # <<>> /\ Head(s) = "-" THEN 0 - DecimalVal(AtoiDigits(s)) ELSE DecimalVal(AtoiDigits(s))

\* the tagInfo selection of handleResponse: PATCH, then EDIT, RUN, READ, each
\* replacing the choice so far when it starts earlier
TagInfo(start, tag) == [start |-> start, tag |-> tag]

\* faulty variant: the start positions are not compared, the last kind present wins
PickEarlier_NoCompare(firstTag, start, tag) ==
    IF start # -1 THEN TagInfo(start, tag) ELSE firstTag

PickEarlier(firstTag, start, tag) ==
    IF start # -1 /\ (firstTag.start = -1 \/ start < firstTag.start)
    THEN TagInfo(start, tag)
    ELSE firstTag

FirstTag(rem) ==
    LET patchStart == Index(rem, "<PATCH>")
        editStart  == Index(rem, "<EDIT>")
        runStart   == Index(rem, "<RUN>")
        readStart  == Index(rem, "<READ>")
        t0 == IF patchStart # -1 THEN TagInfo(patchStart, "PATCH") ELSE TagInfo(-1, "")
        t1 == PickEarlier(t0, editStart, "EDIT")
        t2 == PickEarlier(t1, runStart, "RUN")
    IN  PickEarlier(t2, readStart, "READ")

\* faulty variant: the marker only has to occur somewhere in the prefix
IsToolCallPrefix_ContainsOnly(prefix) == Contains(prefix, TOOLCALL)

\* the [TOOL_CALL] prefix check on remainingResponse[:firstTag.start]
IsToolCallPrefix(prefix) ==
    Contains(prefix, TOOLCALL) /\ HasSuffix(TrimSpace(prefix), TOOLCALL)

\* where the closing tag of the active opening tag is looked for
EndIdx(rem, firstTag) == Index(rem, CloseTag(firstTag.tag))

\* an entry of the actions slice; Open and Close are the positions of the
\* directive's tags in response (bookkeeping for the properties)
ActionItem(kind, filename, id, text, command, isToolCall, open, close) ==
    [Kind |-> kind, Filename |-> filename, ID |-> id, Content |-> text,
     Command |-> command, IsToolCall |-> isToolCall, Open |-> open, Close |-> close]

\* the switch of handleResponse once the payload is cut out: the actions
\* appended for one terminated directive (none when the payload is rejected)
ParsePayload(tag, payload, isToolCall, open, close) ==
    CASE tag = "PATCH" ->
           LET lines == SplitN(TrimSpace(payload), 3)
           IN  IF Len(lines) >= 2 /\ AtoiOk(TrimSpace(lines[2]))
               THEN << ActionItem("PATCH", TrimSpace(lines[1]), Atoi(TrimSpace(lines[2])),
                                  IF Len(lines) = 3 THEN lines[3] ELSE <<>>,
                                  <<>>, isToolCall, open, close) >>
               ELSE <<>>
      [] tag = "EDIT" ->
           LET lines == SplitN(TrimSpace(payload), 2)
           IN  IF Len(lines) = 2
               THEN << ActionItem("EDIT", TrimSpace(lines[1]), 0, lines[2],
                                  <<>>, isToolCall, open, close) >>
               ELSE <<>>
      [] tag = "RUN" ->
           << ActionItem("RUN", <<>>, 0, <<>>, TrimSpace(payload), isToolCall, open, close) >>
      [] tag = "READ" ->
           << ActionItem("READ", TrimSpace(payload), 0, <<>>, <<>>, isToolCall, open, close) >>

\* bookkeeping entry: the active opening tag at Open, the closing tag found
\* at Close (-1 if none), and whether the tag was dropped as unterminated,
\* rejected for its payload, or extracted as an action
TrailItem(tag, open, close, outcome) ==
    [Tag |-> tag, Open |-> open, Close |-> close, Outcome |-> outcome]

\* lexemes of response already cut off remainingResponse
Cursor == Len(response) - Len(remainingResponse)

\* faulty variant: after an extraction the scan resumes right after the
\* opening tag, inside the payload
ScanStep_ResumesInPayload ==
    /\ pc = "scan"
    /\ LET rem      == remainingResponse
           firstTag == FirstTag(rem)
       IN  IF firstTag.start = -1
           THEN /\ pc' = "exec"
                /\ UNCHANGED scanVars
           ELSE LET prefix     == Slice(rem, 0, firstTag.start)
                    isToolCall == IsToolCallPrefix(prefix)
                    endIdx     == EndIdx(rem, firstTag)
                IN  /\ hasToolCall' = (hasToolCall \/ isToolCall)
                    /\ UNCHANGED response
                    /\ IF endIdx = -1
                       THEN /\ remainingResponse' = SliceFrom(rem, firstTag.start + 1)
                            /\ trail' = Append(trail, TrailItem(firstTag.tag,
                                                Cursor + firstTag.start, -1, "dropped"))
                            /\ UNCHANGED <<pc, actions>>
                       ELSE IF firstTag.start + 1 > endIdx
                       THEN \* slice bounds out of range: the runtime panics
                            /\ pc' = "panic"
                            /\ UNCHANGED <<remainingResponse, actions, trail>>
                       ELSE LET parsed == ParsePayload(firstTag.tag,
                                                Slice(rem, firstTag.start + 1, endIdx),
                                                isToolCall,
                                                Cursor + firstTag.start, Cursor + endIdx)
                            IN  /\ actions' = actions \o parsed
                                /\ trail' = Append(trail, TrailItem(firstTag.tag,
                                                Cursor + firstTag.start, Cursor + endIdx,
                                                IF parsed = <<>> THEN "rejected" ELSE "extracted"))
                                /\ remainingResponse' = SliceFrom(rem, firstTag.start + 1)
                                /\ UNCHANGED pc
    /\ UNCHANGED <<blockVars, execVars, provider, config, loopVars, agentVars>>

\* one iteration of the scan loop of handleResponse
ScanStep ==
    /\ pc = "scan"
    /\ LET rem      == remainingResponse
           firstTag == FirstTag(rem)
       IN  IF firstTag.start = -1
           THEN /\ pc' = "exec"
                /\ UNCHANGED scanVars
           ELSE LET prefix     == Slice(rem, 0, firstTag.start)
                    isToolCall == IsToolCallPrefix(prefix)
                    endIdx     == EndIdx(rem, firstTag)
                IN  /\ hasToolCall' = (hasToolCall \/ isToolCall)
                    /\ UNCHANGED response
                    /\ IF endIdx = -1
                       THEN /\ remainingResponse' = SliceFrom(rem, firstTag.start + 1)
                            /\ trail' = Append(trail, TrailItem(firstTag.tag,
                                                Cursor + firstTag.start, -1, "dropped"))
                            /\ UNCHANGED <<pc, actions>>
                       ELSE IF firstTag.start + 1 > endIdx
                       THEN \* slice bounds out of range: the runtime panics
                            /\ pc' = "panic"
                            /\ UNCHANGED <<remainingResponse, actions, trail>>
                       ELSE LET parsed == ParsePayload(firstTag.tag,
                                                Slice(rem, firstTag.start + 1, endIdx),
                                                isToolCall,
                                                Cursor + firstTag.start, Cursor + endIdx)
                            IN  /\ actions' = actions \o parsed
                                /\ trail' = Append(trail, TrailItem(firstTag.tag,
                                                Cursor + firstTag.start, Cursor + endIdx,
                                                IF parsed = <<>> THEN "rejected" ELSE "extracted"))
                                /\ remainingResponse' = SliceFrom(rem, endIdx + 1)
                                /\ UNCHANGED pc
    /\ UNCHANGED <<blockVars, execVars, provider, config, loopVars, agentVars>>

\* ------------------------------------------------------------ action model
\* a result text is a text whose fixed parts are single lexemes

\* confirmAction is not called when the auto flag is set; otherwise the
\* user answers y or anything else
Answers(auto) == IF auto THEN {"auto"} ELSE {"y", "n"}

\* faulty variant: the action goes ahead whatever the answer
Proceeds_Always(answer) == TRUE

Proceeds(answer) == answer \in {"auto", "y"}

\* os.ReadFile fails on a file that does not exist
ReadFails(files, name) == name \notin DOMAIN files

\* os.WriteFile cannot open the empty name or a file without write permission;
\* a failed open leaves the file as it was
ReadOnlyFiles == {<<"r">>}
WriteFails(name) == name = <<>> \/ name \in ReadOnlyFiles

WriteFile(files, name, data) ==
    [n \in (DOMAIN files) \cup {name} |-> IF n = name THEN data ELSE files[n]]

\* cmd.Run of bash -c: fails or succeeds, with or without output written to
\* outputBuf before that
RunOutcomes == {"error", "output_error", "empty", "output"}
Failed(outcome) == outcome \in {"error", "output_error"}
Captured(outcome) == IF outcome \in {"output", "output_error"} THEN <<"out">> ELSE <<>>

\* each Execute yields the files afterwards, the commands run, and the result
Effect(files, cmds, out, err) == [fs |-> files, shell |-> cmds, Output |-> out, Err |-> err]

\* faulty variant: an id past the last block adds the content as a new block
PatchExecute_AppendsPastEnd(p, files, cmds, answer) ==
    IF Proceeds(answer)
    THEN IF ReadFails(files, p.Filename)
         THEN Effect(files, cmds, <<"Error reading ">> \o p.Filename \o <<": err">>, TRUE)
         ELSE LET bs == parseBlocks(files[p.Filename])
              IN  IF p.ID < 0
                  THEN Effect(files, cmds,
                              <<"Error: Block ID ", ToString(p.ID), " not found in ">> \o p.Filename,
                              TRUE)
                  ELSE LET newContent ==
                               IF p.ID >= Len(bs)
                               THEN blocksToString(Append(bs, Block(Len(bs), replaceLines(p.Content))))
                               ELSE blocksToString(updateBlock(bs, p.ID, p.Content))
                       IN  IF WriteFails(p.Filename)
                           THEN Effect(files, cmds,
                                       <<"Error writing ">> \o p.Filename \o <<": err">>, TRUE)
                           ELSE Effect(WriteFile(files, p.Filename, newContent), cmds,
                                       <<"File ">> \o p.Filename \o <<" patched successfully.">>,
                                       FALSE)
    ELSE Effect(files, cmds, <<"Patch on ">> \o p.Filename \o <<" skipped.">>, FALSE)

\* faulty variant: block ids are taken as 1-based
PatchExecute_OneBased(p, files, cmds, answer) ==
    IF Proceeds(answer)
    THEN IF ReadFails(files, p.Filename)
         THEN Effect(files, cmds, <<"Error reading ">> \o p.Filename \o <<": err">>, TRUE)
         ELSE LET bs == parseBlocks(files[p.Filename])
              IN  IF p.ID < 1 \/ p.ID > Len(bs)
                  THEN Effect(files, cmds,
                              <<"Error: Block ID ", ToString(p.ID), " not found in ">> \o p.Filename,
                              TRUE)
                  ELSE LET newContent == blocksToString(updateBlock(bs, p.ID - 1, p.Content))
                       IN  IF WriteFails(p.Filename)
                           THEN Effect(files, cmds,
                                       <<"Error writing ">> \o p.Filename \o <<": err">>, TRUE)
                           ELSE Effect(WriteFile(files, p.Filename, newContent), cmds,
                                       <<"File ">> \o p.Filename \o <<" patched successfully.">>,
                                       FALSE)
    ELSE Effect(files, cmds, <<"Patch on ">> \o p.Filename \o <<" skipped.">>, FALSE)

PatchExecute(p, files, cmds, answer) ==
    IF Proceeds(answer)
    THEN IF ReadFails(files, p.Filename)
         THEN Effect(files, cmds, <<"Error reading ">> \o p.Filename \o <<": err">>, TRUE)
         ELSE LET bs == parseBlocks(files[p.Filename])
              IN  IF p.ID < 0 \/ p.ID >= Len(bs)
                  THEN Effect(files, cmds,
                              <<"Error: Block ID ", ToString(p.ID), " not found in ">> \o p.Filename,
                              TRUE)
                  ELSE LET newContent == blocksToString(updateBlock(bs, p.ID, p.Content))
                       IN  IF WriteFails(p.Filename)
                           THEN Effect(files, cmds,
                                       <<"Error writing ">> \o p.Filename \o <<": err">>, TRUE)
                           ELSE Effect(WriteFile(files, p.Filename, newContent), cmds,
                                       <<"File ">> \o p.Filename \o <<" patched successfully.">>,
                                       FALSE)
    ELSE Effect(files, cmds, <<"Patch on ">> \o p.Filename \o <<" skipped.">>, FALSE)

EditExecute(e, files, cmds, answer) ==
    IF Proceeds(answer)
    THEN IF WriteFails(e.Filename)
         THEN Effect(files, cmds, <<"Error writing ">> \o e.Filename \o <<": err">>, TRUE)
         ELSE Effect(WriteFile(files, e.Filename, e.Content), cmds,
                     <<"File ">> \o e.Filename \o <<" written successfully.">>, FALSE)
    ELSE Effect(files, cmds, <<"Write on ">> \o e.Filename \o <<" skipped.">>, FALSE)

\* the command's own effect on the files is outside the program and not modelled
RunExecute(r, files, cmds, answer, outcome) ==
    IF Proceeds(answer)
    THEN IF Failed(outcome)
         THEN Effect(files, Append(cmds, r.Command),
                     <<"Command failed: ">> \o r.Command \o <<"\nError: ", "err">>, TRUE)
         ELSE IF Captured(outcome) # <<>>
         THEN Effect(files, Append(cmds, r.Command),
                     <<"Command output:\n">> \o Captured(outcome), FALSE)
         ELSE Effect(files, Append(cmds, r.Command),
                     <<"Command executed successfully (no output).">>, FALSE)
    ELSE Effect(files, cmds, <<"Command skipped: ">> \o r.Command, FALSE)

RECURSIVE listBlocks(_)
listBlocks(bs) ==
    IF bs = <<>> THEN <<>>
    ELSE <<"--- BLOCK ", ToString(Head(bs).ID), " ---\n">>
         \o writeLines(Head(bs).Lines) \o listBlocks(Tail(bs))

ReadExecute(r, files, cmds) ==
    IF ReadFails(files, r.Filename)
    THEN Effect(files, cmds, <<"Error reading ">> \o r.Filename \o <<": err">>, TRUE)
    ELSE Effect(files, cmds,
                <<"Content of ">> \o r.Filename \o <<" (split into blocks):\n">>
                   \o listBlocks(parseBlocks(files[r.Filename])),
                FALSE)

\* AIClient.AddMessage: the Gemini chat session merges a user message into a
\* preceding user message, the other clients append
Message(role, text) == [Role |-> role, Content |-> text]

AddMessage(hist, client, role, text) ==
    IF client = "gemini"
    THEN LET genaiRole == IF role = "user" THEN "user" ELSE "model"
         IN  IF Len(hist) > 0 /\ hist[Len(hist)].Role = "user" /\ genaiRole = "user"
             THEN [hist EXCEPT ![Len(hist)].Content = @ \o <<"\n\n">> \o text]
             ELSE Append(hist, Message(genaiRole, text))
    ELSE Append(hist, Message(role, text))

\* faulty variant: an error returned by Execute ends the execution loop
Deliver_AbortOnError(item, asked, answer, eff) ==
    /\ fs' = eff.fs
    /\ shell' = eff.shell
    /\ executed' = Append(executed, [Index |-> next, Kind |-> item.Kind, Asked |-> asked,
                                     Answer |-> answer, Output |-> eff.Output, Err |-> eff.Err])
    /\ IF item.IsToolCall
       THEN /\ outputBuilder' = outputBuilder \o eff.Output \o <<"\n">>
            /\ UNCHANGED history
       ELSE /\ history' = AddMessage(history, provider, "user", eff.Output)
            /\ UNCHANGED outputBuilder
    /\ next' = IF eff.Err THEN Len(actions) ELSE next + 1
    /\ UNCHANGED <<pc, blockVars, scanVars, provider, config, loopVars, agentVars>>

\* the body of the execution loop of handleResponse for one item: Execute,
\* then the result goes to outputBuilder or to the history
Deliver(item, asked, answer, eff) ==
    /\ fs' = eff.fs
    /\ shell' = eff.shell
    /\ executed' = Append(executed, [Index |-> next, Kind |-> item.Kind, Asked |-> asked,
                                     Answer |-> answer, Output |-> eff.Output, Err |-> eff.Err])
    /\ IF item.IsToolCall
       THEN /\ outputBuilder' = outputBuilder \o eff.Output \o <<"\n">>
            /\ UNCHANGED history
       ELSE /\ history' = AddMessage(history, provider, "user", eff.Output)
            /\ UNCHANGED outputBuilder
    /\ next' = next + 1
    /\ UNCHANGED <<pc, blockVars, scanVars, provider, config, loopVars, agentVars>>

Current == actions[next + 1]

\* faulty variant: the patch is applied to the content the file had when the
\* batch began, not to what is on disk now
ExecutePatch_FromSnapshot ==
    /\ pc = "exec" /\ next < Len(actions) /\ Current.Kind = "PATCH"
    /\ \E answer \in Answers(config.AutoEdit) :
          Deliver(Current, ~config.AutoEdit, answer,
                  PatchExecute(Current,
                               [n \in DOMAIN fs |-> IF n = <<"f">> THEN content ELSE fs[n]],
                               shell, answer))

\* faulty variant: the Patch is refused when the file is no longer what it
\* was when the response arrived
ExecutePatch_RefusesStale ==
    /\ pc = "exec" /\ next < Len(actions) /\ Current.Kind = "PATCH"
    /\ \E answer \in Answers(config.AutoEdit) :
          Deliver(Current, ~config.AutoEdit, answer,
                  IF fs[<<"f">>] # content
                  THEN Effect(fs, shell, <<"Error: ">> \o Current.Filename \o <<" changed">>, TRUE)
                  ELSE PatchExecute(Current, fs, shell, answer))

ExecutePatch ==
    /\ pc = "exec" /\ next < Len(actions) /\ Current.Kind = "PATCH"
    /\ \E answer \in Answers(config.AutoEdit) :
          Deliver(Current, ~config.AutoEdit, answer,
                  PatchExecute(Current, fs, shell, answer))

ExecuteEdit ==
    /\ pc = "exec" /\ next < Len(actions) /\ Current.Kind = "EDIT"
    /\ \E answer \in Answers(config.AutoEdit) :
          Deliver(Current, ~config.AutoEdit, answer,
                  EditExecute(Current, fs, shell, answer))

\* faulty variant: an immediate Run is not put to the user
ExecuteRun_ImmediateUngated ==
    /\ pc = "exec" /\ next < Len(actions) /\ Current.Kind = "RUN"
    /\ \E answer \in Answers(config.AutoRun \/ Current.IsToolCall),
          outcome \in RunOutcomes :
          Deliver(Current, ~config.AutoRun, answer,
                  RunExecute(Current, fs, shell, answer, outcome))

ExecuteRun ==
    /\ pc = "exec" /\ next < Len(actions) /\ Current.Kind = "RUN"
    /\ \E answer \in Answers(config.AutoRun), outcome \in RunOutcomes :
          Deliver(Current, ~config.AutoRun, answer,
                  RunExecute(Current, fs, shell, answer, outcome))

\* faulty variant: a read is gated like a command
ExecuteRead_Gated ==
    /\ pc = "exec" /\ next < Len(actions) /\ Current.Kind = "READ"
    /\ \E answer \in Answers(config.AutoRun) :
          Deliver(Current, ~config.AutoRun, answer,
                  IF Proceeds(answer) THEN ReadExecute(Current, fs, shell)
                  ELSE Effect(fs, shell, <<"Read on ">> \o Current.Filename \o <<" skipped.">>,
                              FALSE))

ExecuteRead ==
    /\ pc = "exec" /\ next < Len(actions) /\ Current.Kind = "READ"
    /\ Deliver(Current, FALSE, "none", ReadExecute(Current, fs, shell))

\* handleResponse returns outputBuilder.String(), hasToolCall
Return ==
    /\ pc = "exec" /\ next = Len(actions)
    /\ pc' = "returned"
    /\ UNCHANGED <<blockVars, scanVars, execVars, provider, config, loopVars, agentVars>>

\* ------------------------------------------------------------------ inputs
InitFiles ==
    [n \in {<<"f">>, <<"r">>} |->
        IF n = <<"f">> THEN <<"a", "\n", "\n", "b", "\n", "c">> ELSE <<"a">>]

\* directives as the system prompt spells them, with or without [TOOL_CALL]
Mark(tc) == IF tc THEN <<TOOLCALL, " ">> ELSE <<>>
RunReply(tc) == Mark(tc) \o <<"<RUN>", "\n", "l", "s", "\n", "</RUN>">>
ReadReply(tc, name) == Mark(tc) \o <<"<READ>">> \o name \o <<"</READ>">>
EditReply(tc, name) == Mark(tc) \o <<"<EDIT>", "\n">> \o name \o <<"\n", "x", "\n", "</EDIT>">>
PatchReply(tc, name, id, text) ==
    Mark(tc) \o <<"<PATCH>", "\n">> \o name \o <<"\n", id, "\n">> \o text \o <<"</PATCH>">>

Replies ==
    {<<"o", "k">>}
    \cup {RunReply(tc) : tc \in BOOLEAN}
    \cup {ReadReply(tc, <<"f">>) : tc \in BOOLEAN}
    \cup {ReadReply(FALSE, <<"m">>)}
    \cup {EditReply(tc, <<"f">>) : tc \in BOOLEAN}
    \cup {EditReply(FALSE, <<"r">>)}
    \cup {PatchReply(FALSE, <<"f">>, "1", <<>>), PatchReply(TRUE, <<"f">>, "0", <<"x", "\n">>),
          PatchReply(FALSE, <<"f">>, "3", <<"x", "\n">>)}
    \cup {EditReply(FALSE, <<"f">>) \o <<"\n">> \o RunReply(FALSE),
          RunReply(TRUE) \o <<"\n">> \o ReadReply(FALSE, <<"f">>)}

ScanLexemes ==
    {OpenTag(t) : t \in Tags} \cup {CloseTag(t) : t \in Tags} \cup {TOOLCALL, "\n", "0"}

ScanFiles ==
    [n \in (DOMAIN InitFiles) \cup {<<"0">>} |->
        IF n \in DOMAIN InitFiles THEN InitFiles[n] ELSE <<"a", "\n", "\n", "b">>]

\* ------------------------------------------- SpecScan: one handleResponse call
\* every text of at most MaxResp lexemes, and the replies of the driving loop
\* a terminated directive whose payload is not accepted (an Edit without a
\* newline, a Patch of one line, a Patch whose id is no integer), then other
\* text, then a Run
RejectedPayloads ==
    {<<"<EDIT>", "f", "</EDIT>">>,
     <<"<PATCH>", "\n", "f", "\n", "</PATCH>">>,
     <<"<PATCH>", "\n", "f", "\n", "x", "\n", "a", "</PATCH>">>}

RejectedResponses ==
    {bad \o between \o RunReply(FALSE) :
        bad \in RejectedPayloads, between \in {<<"\n">>, <<"</RUN>">>}}

\* an Edit whose body holds a whole Run directive
NestedResponses ==
    {<<"<EDIT>", "\n", "f", "\n">> \o RunReply(FALSE) \o <<"\n", "</EDIT>", "\n">>}

ScanResponses ==
    TextsUpTo(ScanLexemes, MaxResp) \cup {reply \o <<"\n">> : reply \in Replies}
    \cup RejectedResponses \cup NestedResponses

InitScan ==
    /\ pc = "scan"
    /\ content = <<>> /\ blocks = <<>> /\ patched = FALSE
    /\ serialized = <<>> /\ reparsed = <<>>
    /\ response \in ScanResponses
    /\ remainingResponse = response
    /\ actions = <<>> /\ trail = <<>>
    /\ hasToolCall = FALSE /\ outputBuilder = <<>> /\ next = 0
    /\ executed = <<>> /\ history = <<>> /\ provider = "grok"
    /\ fs = ScanFiles /\ shell = <<>>
    /\ config = [AutoEdit |-> FALSE, AutoRun |-> FALSE]
    /\ sends = 0 /\ sendErr = FALSE /\ autoSends = 0
    /\ steps = <<>> /\ stepIdx = 0 /\ runCount = 0 /\ agentTrace = <<>>

NextScan == ScanStep \/ ExecutePatch \/ ExecuteEdit \/ ExecuteRun \/ ExecuteRead \/ Return

SpecScan == InitScan /\ [][NextScan]_vars

\* ------------------------------------------ Spec: the interactive driving loop
Providers == {"grok", "gemini"}

\* NewGrokClient seeds the history with the system prompt; the Gemini chat
\* session keeps the prompt outside its history
InitHistory(client) ==
    IF client = "grok" THEN <<Message("system", <<"defaultSystemPrompt">>)>> ELSE <<>>

UserInput == <<"h", "i">>

\* what SendMessage does to the history: the Grok client appends the input
\* before the request and the reply after it; the Gemini session records
\* both once the stream has completed
Sent(hist, client, input, ok, reply) ==
    IF client = "grok"
    THEN IF ok THEN hist \o <<Message("user", input), Message("assistant", reply)>>
         ELSE Append(hist, Message("user", input))
    ELSE IF ok THEN hist \o <<Message("user", input), Message("model", reply)>>
         ELSE hist

\* entry of handleResponse: its locals are fresh
EnterHandle(resp) ==
    /\ pc' = "scan"
    /\ response' = resp
    /\ remainingResponse' = resp
    /\ actions' = <<>>
    /\ trail' = <<>>
    /\ hasToolCall' = FALSE
    /\ outputBuilder' = <<>>
    /\ next' = 0
    /\ executed' = <<>>

Init ==
    /\ pc = "prompt"
    /\ content = <<>> /\ blocks = <<>> /\ patched = FALSE
    /\ serialized = <<>> /\ reparsed = <<>>
    /\ response = <<>> /\ remainingResponse = <<>> /\ actions = <<>> /\ trail = <<>>
    /\ hasToolCall = FALSE /\ outputBuilder = <<>> /\ next = 0 /\ executed = <<>>
    /\ provider \in Providers
    /\ history = InitHistory(provider)
    /\ fs = InitFiles /\ shell = <<>>
    /\ config \in [AutoEdit : BOOLEAN, AutoRun : BOOLEAN]
    /\ sends = 0 /\ sendErr = FALSE /\ autoSends = 0
    /\ steps = <<>> /\ stepIdx = 0 /\ runCount = 0 /\ agentTrace = <<>>

\* the user submits input: SendMessage, then handleResponse on the reply
UserTurn ==
    /\ pc = "prompt"
    /\ sends < MaxSends
    /\ sends' = sends + 1
    /\ autoSends' = 0
    /\ \/ /\ history' = Sent(history, provider, UserInput, FALSE, <<>>)
          /\ sendErr' = TRUE
          /\ UNCHANGED <<pc, scanVars, outputBuilder, next, executed>>
       \/ \E reply \in Replies :
             /\ history' = Sent(history, provider, UserInput, TRUE, reply \o <<"\n">>)
             /\ sendErr' = FALSE
             /\ EnterHandle(reply \o <<"\n">>)
    /\ UNCHANGED <<blockVars, fs, shell, provider, config, agentVars>>

\* faulty variant: the loop sends the human input again, not the tool output
ToolLoop_ResendsInput ==
    /\ pc = "returned"
    /\ IF hasToolCall
       THEN /\ sends < MaxSends
            /\ sends' = sends + 1
            /\ autoSends' = autoSends + 1
            /\ \/ /\ history' = Sent(history, provider, UserInput, FALSE, <<>>)
                  /\ sendErr' = TRUE
                  /\ pc' = "prompt"
                  /\ UNCHANGED <<scanVars, outputBuilder, next, executed>>
               \/ \E reply \in Replies :
                     /\ history' = Sent(history, provider, UserInput, TRUE, reply \o <<"\n">>)
                     /\ sendErr' = FALSE
                     /\ EnterHandle(reply \o <<"\n">>)
       ELSE /\ pc' = "prompt"
            /\ UNCHANGED <<scanVars, outputBuilder, next, executed, history, loopVars>>
    /\ UNCHANGED <<blockVars, fs, shell, provider, config, agentVars>>

\* faulty variant: the loop gives up after one automatic send
ToolLoop_Capped ==
    /\ pc = "returned"
    /\ IF hasToolCall /\ autoSends < 1
       THEN /\ sends < MaxSends
            /\ sends' = sends + 1
            /\ autoSends' = autoSends + 1
            /\ \/ /\ history' = Sent(history, provider, outputBuilder, FALSE, <<>>)
                  /\ sendErr' = TRUE
                  /\ pc' = "prompt"
                  /\ UNCHANGED <<scanVars, outputBuilder, next, executed>>
               \/ \E reply \in Replies :
                     /\ history' = Sent(history, provider, outputBuilder, TRUE, reply \o <<"\n">>)
                     /\ sendErr' = FALSE
                     /\ EnterHandle(reply \o <<"\n">>)
       ELSE /\ pc' = "prompt"
            /\ UNCHANGED <<scanVars, outputBuilder, next, executed, history, loopVars>>
    /\ UNCHANGED <<blockVars, fs, shell, provider, config, agentVars>>

\* after handleResponse: feed the tool output back, or wait for the user
ToolLoop ==
    /\ pc = "returned"
    /\ IF hasToolCall
       THEN /\ sends < MaxSends
            /\ sends' = sends + 1
            /\ autoSends' = autoSends + 1
            /\ \/ /\ history' = Sent(history, provider, outputBuilder, FALSE, <<>>)
                  /\ sendErr' = TRUE
                  /\ pc' = "prompt"
                  /\ UNCHANGED <<scanVars, outputBuilder, next, executed>>
               \/ \E reply \in Replies :
                     /\ history' = Sent(history, provider, outputBuilder, TRUE, reply \o <<"\n">>)
                     /\ sendErr' = FALSE
                     /\ EnterHandle(reply \o <<"\n">>)
       ELSE /\ pc' = "prompt"
            /\ UNCHANGED <<scanVars, outputBuilder, next, executed, history, loopVars>>
    /\ UNCHANGED <<blockVars, fs, shell, provider, config, agentVars>>

Next ==
    \/ UserTurn
    \/ ScanStep
    \/ ExecutePatch
    \/ ExecuteEdit
    \/ ExecuteRun
    \/ ExecuteRead
    \/ Return
    \/ ToolLoop

Spec == Init /\ [][Next]_vars

\* ------------------------ SpecBatch: one response of two directives on a file
MaxFileLen == 4      \* longest target file of SpecBatch, the three-block files apart

\* the target file before the batch: every short text, and two files of three blocks
FileChars == {"a", " ", "\n"}
BatchFiles ==
    TextsUpTo(FileChars, MaxFileLen)
    \cup {<<"a", "\n", "\n", "b", "\n", "c", "\n", "\n", "a", "b">>,
          <<"a", "a", "\n", " ", "\n", "b", "\n", "\n", "\n", "c", "\n">>}

IdTexts == {<<"-", "1">>, <<"0">>, <<"1">>, <<"2">>, <<"3">>}
PatchBodies == {<<>>, <<"x">>, <<"x", "\n", "y">>, <<"x", "\n", "\n", "y">>}

PatchDirective(name, id, body) ==
    <<"<PATCH>", "\n">> \o name \o <<"\n">> \o id \o <<"\n">> \o body \o <<"\n", "</PATCH>">>
EditDirective(name, body) ==
    <<"<EDIT>", "\n">> \o name \o <<"\n">> \o body \o <<"\n", "</EDIT>">>

\* directives whose Execute returns an error whatever the target file holds
FailingDirectives ==
    {ReadReply(tc, <<"m">>) : tc \in BOOLEAN}
    \cup {Mark(tc) \o EditDirective(<<"r">>, <<"x">>) : tc \in BOOLEAN}
    \cup {Mark(tc) \o PatchDirective(<<"m">>, <<"0">>, <<"x">>) : tc \in BOOLEAN}
    \cup {Mark(tc) \o PatchDirective(<<"r">>, <<"0">>, <<"x">>) : tc \in BOOLEAN}
    \cup {Mark(tc) \o PatchDirective(<<"f">>, <<"3">>, <<"x">>) : tc \in BOOLEAN}
    \cup {RunReply(tc) : tc \in BOOLEAN}

BatchResponses ==
    {ReadReply(FALSE, <<"f">>) \o <<"\n">> \o PatchDirective(<<"f">>, id, body) :
        id \in IdTexts, body \in PatchBodies}
    \cup {PatchDirective(<<"f">>, k, <<>>) \o <<"\n">> \o second :
            k \in {<<"0">>, <<"1">>},
            second \in {ReadReply(FALSE, <<"f">>)}
                       \cup {PatchDirective(<<"f">>, id, body) :
                                id \in {<<"0">>, <<"1">>},
                                body \in {<<"x">>, <<"x", "\n", "\n", "y">>}}}
    \cup {EditDirective(<<"f">>, <<"x", "\n", "\n", "y">>) \o <<"\n">>
             \o PatchDirective(<<"f">>, id, body) :
            id \in {<<"0">>, <<"1">>, <<"2">>}, body \in {<<>>, <<"x">>}}
    \cup {first \o <<"\n">> \o second :
            first \in FailingDirectives,
            second \in {ReadReply(FALSE, <<"f">>), RunReply(FALSE)}}

InitBatch ==
    /\ pc = "scan"
    /\ content \in BatchFiles
    /\ blocks = <<>> /\ patched = FALSE /\ serialized = <<>> /\ reparsed = <<>>
    /\ response \in BatchResponses
    /\ remainingResponse = response
    /\ actions = <<>> /\ trail = <<>>
    /\ hasToolCall = FALSE /\ outputBuilder = <<>> /\ next = 0 /\ executed = <<>>
    /\ provider = "grok"
    /\ history = Sent(InitHistory(provider), provider, UserInput, TRUE, response)
    /\ fs = [n \in {<<"f">>, <<"r">>} |-> IF n = <<"f">> THEN content ELSE <<"a">>]
    /\ shell = <<>>
    /\ config \in {[AutoEdit |-> auto, AutoRun |-> auto] : auto \in BOOLEAN}
    /\ sends = 1 /\ sendErr = FALSE /\ autoSends = 0
    /\ steps = <<>> /\ stepIdx = 0 /\ runCount = 0 /\ agentTrace = <<>>

NextBatch == ScanStep \/ ExecutePatch \/ ExecuteEdit \/ ExecuteRun \/ ExecuteRead \/ Return

SpecBatch == InitBatch /\ [][NextBatch]_vars

\* ------------- SpecStale: a Read, then the file changes, then a Patch of it
StaleFiles ==
    {<<"a", "\n", "\n", "b", "\n", "c", "\n", "\n", "a", "b">>,
     <<"a", "\n", "\n", "b">>}

\* what another process may leave in the file
ExternalTexts ==
    {<<>>, <<"a">>, <<"b", "\n", "\n", "a">>,
     <<"c", "\n", "\n", "a", "\n", "\n", "b", "\n", "c", "\n", "\n", "a", "b">>}

StalePatches ==
    {PatchDirective(<<"f">>, id, body) :
        id \in {<<"0">>, <<"1">>, <<"2">>}, body \in {<<>>, <<"x">>}}

\* a Read of f and a Patch of f, with nothing, a deleting Patch or an Edit
\* of f in between
StaleResponses ==
    {ReadReply(FALSE, <<"f">>) \o <<"\n">> \o between \o last :
        between \in {<<>>,
                     PatchDirective(<<"f">>, <<"0">>, <<>>) \o <<"\n">>,
                     EditDirective(<<"f">>, <<"x", "\n", "\n", "y">>) \o <<"\n">>},
        last \in StalePatches}

\* another process rewrites f between two actions of the batch (once)
ExternalWrite ==
    /\ pc = "exec" /\ 0 < next /\ next < Len(actions)
    /\ fs[<<"f">>] = content
    /\ \E text \in ExternalTexts \ {content} : fs' = [fs EXCEPT ![<<"f">>] = text]
    /\ UNCHANGED <<pc, blockVars, scanVars, outputBuilder, next, executed, history, shell,
                   provider, config, loopVars, agentVars>>

InitStale ==
    /\ pc = "scan"
    /\ content \in StaleFiles
    /\ blocks = <<>> /\ patched = FALSE /\ serialized = <<>> /\ reparsed = <<>>
    /\ response \in StaleResponses
    /\ remainingResponse = response
    /\ actions = <<>> /\ trail = <<>>
    /\ hasToolCall = FALSE /\ outputBuilder = <<>> /\ next = 0 /\ executed = <<>>
    /\ provider = "grok"
    /\ history = Sent(InitHistory(provider), provider, UserInput, TRUE, response)
    /\ fs = [n \in {<<"f">>, <<"r">>} |-> IF n = <<"f">> THEN content ELSE <<"a">>]
    /\ shell = <<>>
    /\ config \in {[AutoEdit |-> auto, AutoRun |-> auto] : auto \in BOOLEAN}
    /\ sends = 1 /\ sendErr = FALSE /\ autoSends = 0
    /\ steps = <<>> /\ stepIdx = 0 /\ runCount = 0 /\ agentTrace = <<>>

NextStale == ScanStep \/ ExecuteRead \/ ExternalWrite \/ ExecutePatch \/ ExecuteEdit \/ Return

SpecStale == InitStale /\ [][NextStale]_vars

\* ------------------------------ the step runner and the handleResponse it calls
\* main.go: the opening tags looked for are EDIT, RUN and READ
AgentFirstTag(rem) ==
    LET editStart == Index(rem, "<EDIT>")
        runStart  == Index(rem, "<RUN>")
        readStart == Index(rem, "<READ>")
        t0 == IF editStart # -1 THEN TagInfo(editStart, "EDIT") ELSE TagInfo(-1, "")
        t1 == PickEarlier(t0, runStart, "RUN")
    IN  PickEarlier(t1, readStart, "READ")

\* the scan loop of that handleResponse: the actions extracted from rem, and
\* whether the slice between the tags panicked
RECURSIVE AgentScan(_)
AgentScan(rem) ==
    LET firstTag == AgentFirstTag(rem)
        endIdx   == EndIdx(rem, firstTag)
    IN  IF firstTag.start = -1 THEN [Actions |-> <<>>, Panic |-> FALSE]
        ELSE IF endIdx = -1 THEN AgentScan(SliceFrom(rem, firstTag.start + 1))
        ELSE IF firstTag.start + 1 > endIdx THEN [Actions |-> <<>>, Panic |-> TRUE]
        ELSE LET rest == AgentScan(SliceFrom(rem, endIdx + 1))
             IN  [Actions |-> ParsePayload(firstTag.tag, Slice(rem, firstTag.start + 1, endIdx),
                                           FALSE, 0, 0) \o rest.Actions,
                  Panic |-> rest.Panic]

\* the state the actions of main.go work on
World(hist, files, cmds) == [history |-> hist, fs |-> files, shell |-> cmds]

\* EditAction.Execute, RunAction.Execute and ReadAction.Execute of main.go:
\* each adds its own user message to the history
AgentExecuteOne(a, w, client, conf, answer, outcome) ==
    CASE a.Kind = "EDIT" ->
           IF conf.AutoEdit \/ Proceeds(answer)
           THEN IF WriteFails(a.Filename)
                THEN World(AddMessage(w.history, client, "user",
                                      <<"Error editing ">> \o a.Filename \o <<": err">>),
                           w.fs, w.shell)
                ELSE World(AddMessage(w.history, client, "user",
                                      <<"File ">> \o a.Filename \o <<" edited:\n">> \o a.Content),
                           WriteFile(w.fs, a.Filename, a.Content), w.shell)
           ELSE w
      [] a.Kind = "RUN" ->
           IF conf.AutoRun \/ Proceeds(answer)
           THEN IF Failed(outcome)
                THEN World(AddMessage(w.history, client, "user",
                                      <<"Command failed: ">> \o a.Command \o <<"\nError: ", "err">>),
                           w.fs, Append(w.shell, a.Command))
                ELSE IF Captured(outcome) # <<>>
                THEN World(AddMessage(w.history, client, "user",
                                      <<"Command output:\n">> \o Captured(outcome)),
                           w.fs, Append(w.shell, a.Command))
                ELSE World(w.history, w.fs, Append(w.shell, a.Command))
           ELSE w
      [] a.Kind = "READ" ->
           IF ReadFails(w.fs, a.Filename)
           THEN World(AddMessage(w.history, client, "user",
                                 <<"Error reading ">> \o a.Filename \o <<": err">>),
                      w.fs, w.shell)
           ELSE World(AddMessage(w.history, client, "user", w.fs[a.Filename]), w.fs, w.shell)

\* the execution loop: every action, in order, errors ignored
RECURSIVE AgentExecute(_, _, _, _, _, _)
AgentExecute(acts, w, client, conf, answer, outcome) ==
    IF acts = <<>> THEN w
    ELSE AgentExecute(Tail(acts), AgentExecuteOne(Head(acts), w, client, conf, answer, outcome),
                      client, conf, answer, outcome)


\* handleResponse of main.go on one reply
AgentHandle(resp, w, client, conf, answer, outcome) ==
    LET scan == AgentScan(resp)
    IN  [Panic |-> scan.Panic,
         World |-> IF scan.Panic THEN w
                   ELSE AgentExecute(scan.Actions, w, client, conf, answer, outcome)]

AgentFile == <<"AGENTSTEPS.arisu">>
RunLimit == 10

\* faulty variant: the limit is tested one step late
OverLimit_OneLate(count) == count > RunLimit + 1

\* runCount > 10
OverLimit(count) == count > RunLimit

\* os.Remove
RemoveFile(files, name) == [n \in (DOMAIN files) \ {name} |-> files[n]]

\* strings.Split(content, "Steps:"): whether there are two parts, and parts[1]
HasMarker(text) == Index(text, "Steps:") # -1
AfterMarker(text) ==
    LET rest == SliceFrom(text, Index(text, "Steps:") + 1)
    IN  IF Index(rest, "Steps:") = -1 THEN rest ELSE Slice(rest, 0, Index(rest, "Steps:"))

TraceItem(op, text) == [Op |-> op, Text |-> text]

\* ---------------------------------------------------- SpecRunner: its inputs
MaxSteps == 11       \* most lines after the marker in a step file
MaxRichSteps == 1    \* step files up to this length are run with replies that hold directives

StepNames == <<"1", "2", "3", "4", "5", "6", "7", "8", "9", "a", "b", "c", "d">>

RECURSIVE JoinLines(_)
JoinLines(lines) ==
    IF lines = <<>> THEN <<>>
    ELSE IF Len(lines) = 1 THEN Head(lines)
    ELSE Head(lines) \o <<"\n">> \o JoinLines(Tail(lines))

\* n step lines; when spaced, an empty line and a line of one space between them
RECURSIVE StepLines(_, _, _)
StepLines(from, n, spaced) ==
    IF from > n THEN <<>>
    ELSE << <<StepNames[from]>> >>
         \o (IF spaced /\ from < n THEN << <<>>, <<" ">> >> ELSE <<>>)
         \o StepLines(from + 1, n, spaced)

StepsFile(n, spaced) ==
    <<"p", "\n", "Steps:", "\n">> \o JoinLines(StepLines(1, n, spaced)) \o <<"\n">>

\* what AGENTSTEPS.arisu may hold: 0 to MaxSteps steps, with or without blank
\* lines between them, a file without the marker, and one with a second marker
SentinelContents ==
    {StepsFile(n, spaced) : n \in 0..MaxSteps, spaced \in BOOLEAN}
    \cup {<<"1", "\n", "2">>,
          <<"Steps:", "\n", "1", "\n", "Steps:", "\n", "2">>}

\* replies of the backend inside the runner
AgentReplies(lines) ==
    {<<"o", "k">>, <<"<END>">>}
    \cup (IF Len(lines) <= MaxRichSteps
          THEN {ReadReply(FALSE, <<"f">>), RunReply(TRUE), EditReply(FALSE, <<"f">>),
                <<"<END>", "\n">> \o ReadReply(FALSE, <<"f">>)}
          ELSE {})

\* checkAndRunAgenticMode, and runAgenticMode up to its for loop
CheckAgentic ==
    /\ pc = "agent_check"
    /\ IF AgentFile \notin DOMAIN fs
       THEN pc' = "agent_done" /\ UNCHANGED <<steps, stepIdx, runCount>>
       ELSE IF ~HasMarker(fs[AgentFile])
       THEN pc' = "agent_done" /\ UNCHANGED <<steps, stepIdx, runCount>>
       ELSE /\ steps' = Split(TrimSpace(AfterMarker(fs[AgentFile])))
            /\ stepIdx' = 0
            /\ runCount' = 0
            /\ pc' = "agent_loop"
    /\ UNCHANGED <<blockVars, scanVars, execVars, provider, config, loopVars, agentTrace>>

\* SendMessage followed by handleResponse on the reply, inside the runner:
\* the send fails and the file is removed, or the reply is handled and the
\* runner goes on at onward (at "agent_done", file removed, when stop holds)
AgentSend(input, stopOnEnd, onward) ==
    /\ sends' = sends + 1
    /\ UNCHANGED autoSends
    /\ \/ /\ sendErr' = TRUE
          /\ history' = Sent(history, provider, input, FALSE, <<>>)
          /\ agentTrace' = Append(agentTrace, TraceItem("send", input))
          /\ fs' = RemoveFile(fs, AgentFile)
          /\ pc' = "agent_done"
          /\ UNCHANGED shell
       \/ \E reply \in AgentReplies(steps), answer \in {"y", "n"}, outcome \in RunOutcomes :
             LET sentHistory == Sent(history, provider, input, TRUE, reply)
                 h == AgentHandle(reply, World(sentHistory, fs, shell), provider, config,
                                  answer, outcome)
                 stop == stopOnEnd /\ Contains(reply, "<END>")
             IN  /\ sendErr' = FALSE
                 /\ agentTrace' = agentTrace \o <<TraceItem("send", input),
                                                 TraceItem("handle", reply)>>
                 /\ history' = h.World.history
                 /\ shell' = h.World.shell
                 /\ IF h.Panic
                    THEN pc' = "panic" /\ fs' = fs
                    ELSE /\ fs' = IF stop THEN RemoveFile(h.World.fs, AgentFile) ELSE h.World.fs
                         /\ pc' = IF stop THEN "agent_done" ELSE onward

\* one iteration of the for loop, up to the <END> check on the step's reply
AgentStep ==
    /\ pc = "agent_loop"
    /\ IF stepIdx = Len(steps)
       THEN /\ pc' = "agent_done"
            /\ UNCHANGED <<history, fs, shell, loopVars, agentVars>>
       ELSE LET step == TrimSpace(steps[stepIdx + 1])
            IN  IF step = <<>>
                THEN /\ stepIdx' = stepIdx + 1
                     /\ UNCHANGED <<pc, history, fs, shell, loopVars, steps, runCount, agentTrace>>
                ELSE /\ runCount' = runCount + 1
                     /\ UNCHANGED <<steps, stepIdx>>
                     /\ IF OverLimit(runCount')
                        THEN /\ history' = AddMessage(history, provider, "assistant", <<"<END>">>)
                             /\ fs' = RemoveFile(fs, AgentFile)
                             /\ pc' = "agent_done"
                             /\ UNCHANGED <<shell, loopVars, agentTrace>>
                        ELSE AgentSend(step, TRUE, "agent_proceed")
    /\ UNCHANGED <<blockVars, scanVars, outputBuilder, next, executed, provider, config>>

\* faulty variant: the step is sent again in place of Proceed.
AgentProceed_ResendsStep ==
    /\ pc = "agent_proceed"
    /\ AgentSend(TrimSpace(steps[stepIdx + 1]), FALSE, "agent_loop")
    /\ stepIdx' = stepIdx + 1
    /\ UNCHANGED <<steps, runCount>>
    /\ UNCHANGED <<blockVars, scanVars, outputBuilder, next, executed, provider, config>>

\* the rest of the iteration: Proceed. is sent and its reply handled
AgentProceed ==
    /\ pc = "agent_proceed"
    /\ AgentSend(<<"Proceed.">>, FALSE, "agent_loop")
    /\ stepIdx' = stepIdx + 1
    /\ UNCHANGED <<steps, runCount>>
    /\ UNCHANGED <<blockVars, scanVars, outputBuilder, next, executed, provider, config>>


InitRunner ==
    /\ pc = "agent_check"
    /\ content = <<>> /\ blocks = <<>> /\ patched = FALSE
    /\ serialized = <<>> /\ reparsed = <<>>
    /\ response = <<>> /\ remainingResponse = <<>> /\ actions = <<>> /\ trail = <<>>
    /\ hasToolCall = FALSE /\ outputBuilder = <<>> /\ next = 0 /\ executed = <<>>
    /\ provider = "grok"
    /\ history = Sent(InitHistory(provider), provider, UserInput, TRUE, <<"o", "k">>)
    /\ fs \in {InitFiles} \cup {WriteFile(InitFiles, AgentFile, text) : text \in SentinelContents}
    /\ shell = <<>>
    /\ config \in {[AutoEdit |-> auto, AutoRun |-> auto] : auto \in BOOLEAN}
    /\ sends = 1 /\ sendErr = FALSE /\ autoSends = 0
    /\ steps = <<>> /\ stepIdx = 0 /\ runCount = 0 /\ agentTrace = <<>>

NextRunner == CheckAgentic \/ AgentStep \/ AgentProceed

SpecRunner == InitRunner /\ [][NextRunner]_vars

\* --------------------------------------------------- properties of the scanner
OpenTags == {OpenTag(t) : t \in Tags}

\* positions (0-based) of the opening tags of a text
OpenPositions(text) == {i \in 0..(Len(text) - 1) : text[i + 1] \in OpenTags}

SetMin(S) == CHOOSE x \in S : \A y \in S : x <= y

\* positions after `from` of the closing tags of a kind
ClosesAfter(text, tag, from) ==
    {c \in (from + 1)..(Len(text) - 1) : text[c + 1] = CloseTag(tag)}

\* where the cursor stood when the k-th active tag was chosen: start of the
\* response, just after a dropped opening tag, or just after a closing tag
PrevEnd(k) ==
    IF k = 1 THEN 0
    ELSE IF trail[k - 1].Outcome = "dropped" THEN trail[k - 1].Open + 1
    ELSE trail[k - 1].Close + 1

ActionAt(open) == CHOOSE i \in 1..Len(actions) : actions[i].Open = open

\* C4: the directives are ordered by the position of their opening tags, the
\* active tag of every step is the opening tag with the smallest start in the
\* remaining text, and the actions are executed in exactly that order.
C4_Order ==
    /\ \A i, j \in 1..Len(actions) : i < j => actions[i].Open < actions[j].Open
    /\ \A i \in 1..Len(actions) : response[actions[i].Open + 1] = OpenTag(actions[i].Kind)
    /\ \A k \in 1..Len(trail) :
          /\ response[trail[k].Open + 1] = OpenTag(trail[k].Tag)
          /\ \A i \in OpenPositions(response) : ~(PrevEnd(k) <= i /\ i < trail[k].Open)
    /\ pc = "scan" =>
          LET ft == FirstTag(remainingResponse)
              opens == OpenPositions(remainingResponse)
          IN  IF opens = {} THEN ft.start = -1 ELSE ft.start = SetMin(opens)
    /\ Len(executed) = next
    /\ \A k \in 1..Len(executed) :
          executed[k].Index = k - 1 /\ executed[k].Kind = actions[k].Kind
    /\ pc = "returned" => Len(executed) = Len(actions)

C4_Witness ==
    /\ pc = "returned"
    /\ Len(actions) = 2 /\ Len(executed) = 2
    /\ actions[1].Kind = "READ" /\ actions[2].Kind = "RUN"

\* the opening tag at open is terminated and its payload is accepted
WellFormedAt(open) ==
    \E t \in Tags :
       /\ response[open + 1] = OpenTag(t)
       /\ ClosesAfter(response, t, open) # {}
       /\ ParsePayload(t, Slice(response, open + 1, SetMin(ClosesAfter(response, t, open))),
                       FALSE, 0, 0) # <<>>

\* C5: an opening tag with no closing tag of its kind in the remaining text
\* produces no directive and scanning resumes right after it, so a well-formed
\* directive that starts after the discarded tag is still extracted.
C5_ResumeAfterUnterminated ==
    pc # "scan" =>
       \A k \in 1..Len(trail) :
          trail[k].Outcome = "dropped" =>
             /\ \A i \in 1..Len(actions) : actions[i].Open # trail[k].Open
             /\ LET later == {i \in OpenPositions(response) : i > trail[k].Open}
                IN  (later # {} /\ WellFormedAt(SetMin(later)))
                       => \E i \in 1..Len(actions) : actions[i].Open = SetMin(later)

\* C6: for every response, malformed ones included, extraction ends with a
\* directive list and never crashes
C6_NoCrash == pc # "panic"

\* C7: the closing tag of the active opening tag is searched for only after
\* that opening tag: a scan step pairs the tag with the first closing tag of
\* its kind that follows it (the payload is the text between them, the cursor
\* moves past that closing tag), and drops the tag when none follows.
C7_CloseAfterOpen ==
    [][(pc = "scan" /\ FirstTag(remainingResponse).start # -1) =>
          LET rem    == remainingResponse
              ft     == FirstTag(rem)
              closes == ClosesAfter(rem, ft.tag, ft.start)
          IN  IF closes = {}
              THEN remainingResponse' = SliceFrom(rem, ft.start + 1) /\ actions' = actions
              ELSE /\ remainingResponse' = SliceFrom(rem, SetMin(closes) + 1)
                   /\ actions' = actions \o
                         ParsePayload(ft.tag, Slice(rem, ft.start + 1, SetMin(closes)),
                                      IsToolCallPrefix(Slice(rem, 0, ft.start)),
                                      Cursor + ft.start, Cursor + SetMin(closes))]_vars

\* C8: a directive is immediate exactly when the text between the previous
\* cursor position and its opening tag, trimmed, ends with [TOOL_CALL].
C8_Immediate ==
    \A k \in 1..Len(trail) :
       trail[k].Outcome = "extracted" =>
          (actions[ActionAt(trail[k].Open)].IsToolCall
             <=> HasSuffix(TrimSpace(Slice(response, PrevEnd(k), trail[k].Open)), TOOLCALL))

C8_Witness ==
    /\ pc = "returned"
    /\ Len(actions) = 2
    /\ actions[1].IsToolCall /\ ~actions[2].IsToolCall
    /\ Contains(Slice(response, 0, actions[2].Open), TOOLCALL)

\* ------------------------------------------------ properties of the actions
Last(seq) == seq[Len(seq)]

\* this step is the execution-loop body for an action of one of these kinds
Executing(kinds) ==
    pc = "exec" /\ next < Len(actions) /\ Current.Kind \in kinds /\ next' = next + 1

IsSkipped(out) ==
    HasSuffix(out, " skipped.") \/ (out # <<>> /\ Head(out) = "Command skipped: ")

\* C9: a file changes only by an Edit or Patch with autoEdit set or confirmed
\* by the user, the shell runs only for a Run with autoRun set or confirmed;
\* neither flag stands in for the other, and a declined action changes no
\* file, runs nothing and returns a "skipped" result.
C9_Gating ==
    [][/\ fs' # fs =>
             /\ Executing({"EDIT", "PATCH"})
             /\ config.AutoEdit \/ (Last(executed').Asked /\ Last(executed').Answer = "y")
       /\ shell' # shell =>
             /\ Executing({"RUN"})
             /\ config.AutoRun \/ (Last(executed').Asked /\ Last(executed').Answer = "y")
       /\ Executing({"EDIT", "PATCH"}) => Last(executed').Asked = ~config.AutoEdit
       /\ Executing({"RUN"}) => Last(executed').Asked = ~config.AutoRun
       /\ (Executing({"EDIT", "PATCH", "RUN"}) /\ Last(executed').Answer = "n") =>
             /\ fs' = fs /\ shell' = shell
             /\ IsSkipped(Last(executed').Output) /\ ~Last(executed').Err]_vars

C9_Witness ==
    /\ config.AutoRun /\ ~config.AutoEdit
    /\ Len(executed) = 2
    /\ executed[1].Kind = "EDIT" /\ executed[1].Answer = "n" /\ IsSkipped(executed[1].Output)
    /\ executed[2].Kind = "RUN" /\ executed[2].Answer = "auto"
    /\ fs = InitFiles /\ shell # <<>>

\* C10: a Read executes under every setting of autoEdit and autoRun without
\* asking for confirmation, is never skipped, and leaves every file unchanged
\* and the shell unused.
C10_ReadUngated ==
    [][/\ Executing({"READ"}) =>
             /\ fs' = fs /\ shell' = shell
             /\ ~Last(executed').Asked /\ Last(executed').Answer = "none"
             /\ ~IsSkipped(Last(executed').Output)
       /\ pc' = "returned" =>
             /\ Len(executed') = Len(actions')
             /\ \A k \in 1..Len(actions') :
                   actions'[k].Kind = "READ" =>
                      /\ executed'[k].Kind = "READ" /\ ~executed'[k].Asked
                      /\ ~IsSkipped(executed'[k].Output)]_vars

C10_Witness ==
    /\ ~config.AutoRun /\ ~config.AutoEdit
    /\ Len(executed) = 1
    /\ executed[1].Kind = "READ" /\ ~executed[1].Err
    /\ Contains(executed[1].Output, "--- BLOCK ")
    /\ fs = InitFiles

\* ------------------------------------------------- properties of the segmenter
IsBlank(line) == TrimSpace(line) = <<>>

RECURSIVE FlattenBlocks(_)
FlattenBlocks(bs) == IF bs = <<>> THEN <<>> ELSE Head(bs).Lines \o FlattenBlocks(Tail(bs))

RECURSIVE InterleavedLines(_)
InterleavedLines(bs) ==
    IF bs = <<>> THEN <<>>
    ELSE IF Len(bs) = 1 THEN bs[1].Lines
    ELSE bs[1].Lines \o << <<>> >> \o InterleavedLines(Tail(bs))

NonBlankIdx(lines) == {i \in 1..Len(lines) : ~IsBlank(lines[i])}

\* index in lines of the p-th non-blank line
LineIdx(lines, p) ==
    CHOOSE i \in NonBlankIdx(lines) : Cardinality({j \in NonBlankIdx(lines) : j <= i}) = p

\* index of the block that holds the p-th line of FlattenBlocks(bs)
BlockOfPos(bs, p) ==
    CHOOSE k \in 1..Len(bs) :
        /\ Len(FlattenBlocks(SubSeq(bs, 1, k - 1))) < p
        /\ p <= Len(FlattenBlocks(SubSeq(bs, 1, k)))

\* C1: re-segmenting the serialized blocks of a text gives the same blocks:
\* segment(serialize(segment(x))) = segment(x), ids and lines alike.
C1_RoundTrip ==
    (pc = "reparsed" /\ ~patched) => reparsed = blocks

C1_Witness ==
    /\ pc = "reparsed" /\ ~patched
    /\ Len(blocks) >= 2
    /\ serialized # content

\* C2: the blocks of segment(text) partition the non-blank lines of the text
\* in order: no empty block, no blank line in a block, two non-blank lines
\* share a block exactly when no blank line lies between them, ids 0..n-1.
C2_Partition ==
    (pc # "input" /\ ~patched) =>
        LET lines == Split(content)
            m     == Cardinality(NonBlankIdx(lines))
        IN  /\ \A k \in 1..Len(blocks) :
                  /\ blocks[k].ID = k - 1
                  /\ Len(blocks[k].Lines) > 0
                  /\ \A l \in 1..Len(blocks[k].Lines) : ~IsBlank(blocks[k].Lines[l])
            /\ FlattenBlocks(blocks) = SelectSeq(lines, LAMBDA l : ~IsBlank(l))
            /\ \A p, q \in 1..m :
                  p < q =>
                     ((BlockOfPos(blocks, p) = BlockOfPos(blocks, q))
                        <=> (\A j \in LineIdx(lines, p)..LineIdx(lines, q) : ~IsBlank(lines[j])))

C2_Witness ==
    /\ pc = "parsed" /\ ~patched
    /\ Len(blocks) >= 2
    /\ \E i \in 1..(Len(Split(content)) - 1) :
          IsBlank(Split(content)[i]) /\ IsBlank(Split(content)[i + 1])

\* C3: serialize emits every line of every block in order, each followed by
\* one newline, one blank line between consecutive blocks and none after the
\* last: split on newlines, the output is the blocks' lines with one empty
\* line between blocks, and one final empty part from the last newline.
C3_Serialize ==
    (pc \in {"serialized", "reparsed"}) =>
        /\ (blocks = <<>> => serialized = <<>>)
        /\ (blocks # <<>> =>
               Split(serialized) = InterleavedLines(blocks) \o << <<>> >>)

C3_Witness ==
    /\ pc = "serialized"
    /\ Len(blocks) = 2
    /\ Len(blocks[1].Lines) = 2
    /\ serialized = blocks[1].Lines[1] \o <<"\n">> \o blocks[1].Lines[2] \o <<"\n", "\n">>
                      \o blocks[2].Lines[1] \o <<"\n">>

\* ------------------------------------------- properties of Patch and Read
\* the lines of each block, in order
LinesOf(bs) == [i \in 1..Len(bs) |-> bs[i].Lines]

\* ls with its entry k (0-based) replaced by the entries of parts
Spliced(ls, k, parts) == SubSeq(ls, 1, k) \o parts \o SubSeq(ls, k + 2, Len(ls))

\* a listing as its reader sees it: the id after each "--- BLOCK " header and
\* the lines up to the next header
HeaderAfter(out, i) ==
    IF \E j \in (i + 1)..Len(out) : out[j] = "--- BLOCK "
    THEN SetMin({j \in (i + 1)..Len(out) : out[j] = "--- BLOCK "})
    ELSE Len(out) + 1

PrintedLines(text) == LET ls == Split(text) IN SubSeq(ls, 1, Len(ls) - 1)

RECURSIVE ListedFrom(_, _)
ListedFrom(out, i) ==
    IF i > Len(out) THEN <<>>
    ELSE IF out[i] = "--- BLOCK "
         THEN <<[Id |-> out[i + 1],
                 Lines |-> PrintedLines(SubSeq(out, i + 3, HeaderAfter(out, i) - 1))]>>
              \o ListedFrom(out, HeaderAfter(out, i))
         ELSE ListedFrom(out, i + 1)

Listed(out) == ListedFrom(out, 1)

\* the step executes a Patch the user confirmed (or AutoEdit let through)
ConfirmedPatch ==
    /\ Executing({"PATCH"})
    /\ Last(executed').Answer \in {"auto", "y"}

\* C11: when a Read of a file is directly followed by a confirmed Patch of the
\* same writable file, the Patch succeeds exactly when its id is one the Read
\* listed; it then replaces the block printed under that id (the blocks
\* printed under the other ids stay as printed), and otherwise it fails and
\* leaves the file as it was
C11_ReadIdsArePatchIds ==
    [][(/\ ConfirmedPatch
        /\ next > 0
        /\ actions[next].Kind = "READ"
        /\ actions[next].Filename = Current.Filename
        /\ ~executed[next].Err
        /\ ~WriteFails(Current.Filename))
       => LET listing == Listed(executed[next].Output)
              hits    == {j \in 1..Len(listing) : listing[j].Id = ToString(Current.ID)}
              printed == [j \in 1..Len(listing) |-> listing[j].Lines]
          IN  IF hits # {}
              THEN /\ Cardinality(hits) = 1
                   /\ ~Last(executed').Err
                   /\ LinesOf(parseBlocks(fs'[Current.Filename]))
                        = Spliced(printed, (CHOOSE j \in hits : TRUE) - 1,
                                  LinesOf(parseBlocks(Current.Content)))
              ELSE /\ Last(executed').Err
                   /\ fs' = fs]_vars

\* a Read listed three blocks and the Patch after it replaced the middle one
C11_Witness ==
    /\ next = 2
    /\ actions[1].Kind = "READ" /\ actions[2].Kind = "PATCH"
    /\ Len(Listed(executed[1].Output)) = 3
    /\ actions[2].ID = 1
    /\ ~executed[2].Err
    /\ executed[2].Answer \in {"auto", "y"}
    /\ LinesOf(parseBlocks(fs[<<"f">>]))
         = Spliced(LinesOf(parseBlocks(content)), 1, << <<<<"x">>>> >>)
\* C12: a confirmed Patch of a readable file whose id is negative or not less
\* than the file's current block count (so any id when the file has no
\* block) returns the "block not found" error and changes no file
C12_BlockNotFound ==
    [][(/\ ConfirmedPatch
        /\ ~ReadFails(fs, Current.Filename)
        /\ (Current.ID < 0 \/ Current.ID >= Len(parseBlocks(fs[Current.Filename]))))
       => /\ Last(executed').Output
               = <<"Error: Block ID ", ToString(Current.ID), " not found in ">>
                     \o Current.Filename
          /\ Last(executed').Err
          /\ fs' = fs]_vars

\* block 0 of a file of blank lines only was asked for, and refused
C12_Witness ==
    /\ next = 2
    /\ content # <<>> /\ parseBlocks(content) = <<>>
    /\ actions[2].Kind = "PATCH" /\ actions[2].ID = 0
    /\ executed[2].Answer \in {"auto", "y"}
    /\ executed[2].Output = <<"Error: Block ID ", "0", " not found in ", "f">>
    /\ fs[<<"f">>] = content

\* the step is a confirmed Patch that addresses an existing block of a file
\* which can be read and written
PatchOfBlock ==
    /\ ConfirmedPatch
    /\ ~ReadFails(fs, Current.Filename)
    /\ ~WriteFails(Current.Filename)
    /\ Current.ID >= 0
    /\ Current.ID < Len(parseBlocks(fs[Current.Filename]))

\* C13: such a Patch with empty or whitespace-only content (a directive with
\* only a filename and a block id has empty content) deletes block k: the
\* written file segments into one block less, the old blocks before k and
\* the old blocks after k, lines unchanged and ids counted from 0 again
C13_DeleteBlock ==
    [][(PatchOfBlock /\ TrimSpace(Current.Content) = <<>>)
       => LET old == parseBlocks(fs[Current.Filename])
              new == parseBlocks(fs'[Current.Filename])
              k   == Current.ID
          IN  /\ ~Last(executed').Err
              /\ Len(new) = Len(old) - 1
              /\ \A i \in 1..Len(new) :
                    /\ new[i].ID = i - 1
                    /\ new[i].Lines = old[IF i <= k THEN i ELSE i + 1].Lines]_vars

\* the middle block of a three-block file was deleted by a directive that
\* carries only the filename and the id
C13_Witness ==
    /\ next = 1
    /\ actions[1].Kind = "PATCH" /\ actions[1].ID = 1 /\ actions[1].Content = <<>>
    /\ executed[1].Answer \in {"auto", "y"}
    /\ ~executed[1].Err
    /\ Len(parseBlocks(content)) = 3
    /\ LinesOf(parseBlocks(fs[<<"f">>]))
         = <<parseBlocks(content)[1].Lines, parseBlocks(content)[3].Lines>>

\* C14: such a Patch with non-blank content replaces block k alone, and the
\* written file segments into the old blocks before k, one block per
\* blank-line-separated part of the content, and the old blocks after k; a
\* single-block file patched at 0 with "x\n\ny" segments into ["x"] and ["y"]
C14_DeferredSplit ==
    [][(PatchOfBlock /\ TrimSpace(Current.Content) # <<>>)
       => LET old   == parseBlocks(fs[Current.Filename])
              new   == parseBlocks(fs'[Current.Filename])
              parts == parseBlocks(Current.Content)
              k     == Current.ID
          IN  /\ ~Last(executed').Err
              /\ Len(new) = Len(old) - 1 + Len(parts)
              /\ \A i \in 1..k : new[i].Lines = old[i].Lines
              /\ \A j \in 1..Len(parts) : new[k + j].Lines = parts[j].Lines
              /\ \A i \in (k + 2)..Len(old) : new[i - 1 + Len(parts)].Lines = old[i].Lines
              /\ (Len(old) = 1 /\ Current.Content = <<"x", "\n", "\n", "y">>)
                    => LinesOf(new) = << <<<<"x">>>>, <<<<"y">>>> >>]_vars

\* block 0 of a single-block file was patched with "x\n\ny": the file now
\* holds two blocks
C14_Witness ==
    /\ next = 2
    /\ Len(parseBlocks(content)) = 1
    /\ actions[1].Kind = "READ"
    /\ actions[2].Kind = "PATCH" /\ actions[2].ID = 0
    /\ actions[2].Content = <<"x", "\n", "\n", "y">>
    /\ executed[2].Answer \in {"auto", "y"}
    /\ ~executed[2].Err
    /\ LinesOf(parseBlocks(fs[<<"f">>])) = << <<<<"x">>>>, <<<<"y">>>> >>

\* entry i of the batch was carried out: not declined, and without error
CarriedOut(i) == executed[i].Answer \in {"auto", "y", "none"} /\ ~executed[i].Err

\* the blocks file f holds after the first action of a batch, when that action
\* is an Edit of f or the deletion of an existing block of f
AfterFirst ==
    IF actions[1].Kind = "EDIT"
    THEN LinesOf(parseBlocks(actions[1].Content))
    ELSE Spliced(LinesOf(parseBlocks(content)), actions[1].ID, <<>>)

FirstRewrites ==
    /\ actions[1].Filename = <<"f">>
    /\ CarriedOut(1)
    /\ \/ actions[1].Kind = "EDIT"
       \/ /\ actions[1].Kind = "PATCH"
          /\ actions[1].Content = <<>>
          /\ actions[1].ID \in 0..(Len(parseBlocks(content)) - 1)

\* C15: the second action of a batch works on what the first one left on
\* disk. After an Edit of f, or a Patch that deleted block k of f, a Read of f
\* lists the blocks left (so the old block k+1 under id k), and a confirmed
\* Patch of f addresses and changes those blocks, not the ones the file had
\* when the batch began
C15_SeesEarlierEffect ==
    (/\ pc \in {"exec", "returned"}
     /\ next = 2
     /\ FirstRewrites
     /\ actions[2].Filename = <<"f">>
     /\ executed[2].Answer \in {"auto", "y", "none"})
    => LET listing == Listed(executed[2].Output)
           id      == actions[2].ID
       IN  IF actions[2].Kind = "READ"
           THEN /\ Len(listing) = Len(AfterFirst)
                /\ \A j \in 1..Len(listing) :
                      /\ listing[j].Id = ToString(j - 1)
                      /\ listing[j].Lines = AfterFirst[j]
           ELSE IF id \in 0..(Len(AfterFirst) - 1)
           THEN /\ ~executed[2].Err
                /\ LinesOf(parseBlocks(fs[<<"f">>]))
                     = Spliced(AfterFirst, id, LinesOf(parseBlocks(actions[2].Content)))
           ELSE /\ executed[2].Err
                /\ LinesOf(parseBlocks(fs[<<"f">>])) = AfterFirst

\* block 0 of a three-block file was deleted, and the Read after it printed
\* the old block 1 under id 0
C15_Witness ==
    /\ next = 2
    /\ actions[1].Kind = "PATCH" /\ actions[1].ID = 0 /\ actions[1].Content = <<>>
    /\ CarriedOut(1)
    /\ actions[2].Kind = "READ"
    /\ Len(parseBlocks(content)) = 3
    /\ Listed(executed[2].Output)[1]
         = [Id |-> "0", Lines |-> parseBlocks(content)[2].Lines]

\* the texts Execute returns together with an error
IsFailureText(out) ==
    out # <<>> /\ Head(out) \in {"Error reading ", "Error writing ", "Error: Block ID ",
                                "Command failed: "}

\* C16: a failing action does not end the batch. The step that executes an
\* action returning an error delivers the failure text as that action's
\* result and leaves the loop running on the same action list, and
\* handleResponse returns only when every extracted action has been executed,
\* in the order of extraction
C16_NoAbort ==
    [][/\ (pc = "exec" /\ next < Len(actions) /\ executed' # executed /\ Last(executed').Err)
          => /\ IsFailureText(Last(executed').Output)
             /\ IF Current.IsToolCall
                THEN outputBuilder' = outputBuilder \o Last(executed').Output \o <<"\n">>
                ELSE Last(history') = Message("user", Last(executed').Output)
             /\ pc' = "exec" /\ actions' = actions /\ next' = next + 1
       /\ pc' = "returned"
          => /\ Len(executed') = Len(actions')
             /\ \A i \in 1..Len(actions') :
                   /\ executed'[i].Index = i - 1
                   /\ executed'[i].Kind = actions'[i].Kind]_vars

\* the first action of a batch failed and the second one was executed after it
C16_Witness ==
    /\ pc = "returned"
    /\ Len(actions) = 2 /\ Len(executed) = 2
    /\ executed[1].Err /\ IsFailureText(executed[1].Output)
    /\ executed[2].Index = 1 /\ ~executed[2].Err

\* -------------------------------------------- properties of handleResponse
\* C17: each executed directive's result goes to exactly one sink. The result
\* of an immediate directive is added to the feedback text, after the
\* earlier ones, and the history is left alone; the result of any other
\* directive becomes one new user entry at the end of the history, and the
\* feedback text is left alone
C17_OneSink ==
    [][(pc = "exec" /\ next < Len(actions) /\ next' = next + 1)
       => LET out == Last(executed').Output
          IN  IF Current.IsToolCall
              THEN /\ outputBuilder' = outputBuilder \o out \o <<"\n">>
                   /\ history' = history
              ELSE /\ outputBuilder' = outputBuilder
                   /\ Len(history') = Len(history) + 1
                   /\ SubSeq(history', 1, Len(history)) = history
                   /\ Last(history').Role = "user"
                   /\ Last(history').Content = out]_vars

\* C18: handleResponse returns hasToolCall = TRUE exactly when one of the
\* actions it extracted is immediate (and the feedback text then holds a
\* result); a response whose only marked tag was discarded returns FALSE
C18_FlagIffImmediateAction ==
    pc = "returned"
    => /\ hasToolCall <=> (\E i \in 1..Len(actions) : actions[i].IsToolCall)
       /\ hasToolCall => outputBuilder # <<>>

\* ------------------------------------------ properties of the driving loop
\* C19: each reply is handed to handleResponse once, and what the driver does
\* when handleResponse has returned depends on hasToolCall alone: if TRUE it
\* sends the feedback text, without asking the user, and goes on with the new
\* reply, or back to the prompt if the send fails; if FALSE it sends nothing
\* and goes back to the prompt
C19_ToolLoop ==
    [][/\ pc = "returned"
          => IF hasToolCall
             THEN /\ sends' = sends + 1
                  /\ autoSends' = autoSends + 1
                  /\ IF sendErr'
                     THEN pc' = "prompt"
                     ELSE /\ pc' = "scan"
                          /\ Len(history') = Len(history) + 2
                          /\ history'[Len(history') - 1].Role = "user"
                          /\ history'[Len(history') - 1].Content = outputBuilder
                          /\ Last(history').Content = response'
             ELSE /\ pc' = "prompt"
                  /\ sends' = sends
                  /\ history' = history
       /\ (pc # "scan" /\ pc' = "scan")
          => /\ sends' = sends + 1 /\ ~sendErr'
             /\ remainingResponse' = response'
             /\ actions' = <<>> /\ executed' = <<>> /\ outputBuilder' = <<>>
             /\ ~hasToolCall']_vars

\* the feedback of an immediate directive has been sent on its own and the
\* reply to it is being handled
C19_Witness ==
    /\ pc = "scan"
    /\ autoSends = 1
    /\ ~sendErr
    /\ Len(history) >= 2
    /\ history[Len(history) - 1].Role = "user"
    /\ history[Len(history) - 1].Content # UserInput
    /\ Last(history).Content = response

RECURSIVE SentTexts(_)
SentTexts(trace) ==
    IF trace = <<>> THEN <<>>
    ELSE (IF Head(trace).Op = "send" THEN <<Head(trace).Text>> ELSE <<>>)
         \o SentTexts(Tail(trace))

\* the step instructions among them
StepsSent == SelectSeq(SentTexts(agentTrace), LAMBDA t : t # <<"Proceed.">>)

\* the non-blank lines of the step file, trimmed
RECURSIVE NonBlankSteps(_)
NonBlankSteps(lines) ==
    IF lines = <<>> THEN <<>>
    ELSE (IF TrimSpace(Head(lines)) = <<>> THEN <<>> ELSE <<TrimSpace(Head(lines))>>)
         \o NonBlankSteps(Tail(lines))

\* some reply the runner handled held the <END> marker
EndSeen == \E i \in 1..Len(agentTrace) :
              agentTrace[i].Op = "handle" /\ Contains(agentTrace[i].Text, "<END>")

\* C21: the runner never sends more than 10 step instructions, blank lines
\* not counted; once it meets an 11th non-blank step it has stopped, the
\* sentinel file is removed, and what it sent are the first 10 steps only
C21_StepCap ==
    /\ Len(StepsSent) <= RunLimit
    /\ runCount <= Len(NonBlankSteps(steps))
    /\ runCount > RunLimit
       => /\ pc = "agent_done"
          /\ AgentFile \notin DOMAIN fs
          /\ StepsSent = SubSeq(NonBlankSteps(steps), 1, RunLimit)

\* a file of 11 steps with blank lines in between, no <END> in any reply:
\* stopped at the 11th step with 10 sent and the file gone
C21_Witness ==
    /\ pc = "agent_done"
    /\ Len(NonBlankSteps(steps)) = RunLimit + 1
    /\ Len(steps) > RunLimit + 1
    /\ ~EndSeen
    /\ runCount = RunLimit + 1
    /\ Len(StepsSent) = RunLimit
    /\ AgentFile \notin DOMAIN fs

\* C22: once a reply handled by the runner, to a step instruction or to
\* "Proceed.", held <END>, the runner has stopped and the sentinel is deleted
C22_EndStops ==
    (EndSeen /\ pc # "panic")
    => /\ pc = "agent_done"
       /\ AgentFile \notin DOMAIN fs
       /\ Contains(agentTrace[Len(agentTrace)].Text, "<END>")

\* the runner went through every line of a file of at most 10 steps, no send
\* failed and no reply held <END>
CompletedNormally ==
    /\ pc = "agent_done"
    /\ steps # <<>>
    /\ stepIdx = Len(steps)
    /\ Len(NonBlankSteps(steps)) \in 1..RunLimit
    /\ Len(SentTexts(agentTrace)) = 2 * Len(NonBlankSteps(steps))
    /\ ~sendErr
    /\ ~EndSeen

\* C23: after a normal completion the sentinel file does not exist
C23_RemovedOnCompletion == CompletedNormally => AgentFile \notin DOMAIN fs

\* C24: when the runner has stopped on a send failure the sentinel is
\* deleted, and a sentinel that is still there when the runner has stopped
\* has a Steps: marker
C24_RemovedOnFailure ==
    pc = "agent_done"
    => /\ sendErr => AgentFile \notin DOMAIN fs
       /\ AgentFile \in DOMAIN fs => HasMarker(fs[AgentFile])

\* the i-th message of a run over the steps nb: the steps in order, Proceed.
\* after each
ExpectedSend(nb, i) ==
    IF i % 2 = 1 THEN nb[(i + 1) \div 2] ELSE <<"Proceed.">>

\* C25: what the runner sends is step 1, Proceed., step 2, Proceed., ... in
\* the order of the step file and nothing else; every send but a failed one
\* is followed by exactly one handling of its reply before the next send
C25_SendOrder ==
    LET sent == SentTexts(agentTrace)
        nb == NonBlankSteps(steps)
    IN  /\ Len(sent) <= 2 * Len(nb)
        /\ \A i \in 1..Len(sent) : sent[i] = ExpectedSend(nb, i)
        /\ sends = 1 + Len(sent)
        /\ autoSends = 0
        /\ \A j \in 1..Len(agentTrace) :
              IF agentTrace[j].Op = "send"
              THEN IF j = Len(agentTrace) THEN sendErr /\ pc = "agent_done"
                   ELSE agentTrace[j + 1].Op = "handle"
              ELSE j > 1 /\ agentTrace[j - 1].Op = "send"

\* two steps separated by blank lines, both sent, each followed by Proceed.,
\* all four replies handled
C25_Witness ==
    /\ pc = "agent_done"
    /\ Len(steps) > 2
    /\ SentTexts(agentTrace) = <<steps[1], <<"Proceed.">>, steps[Len(steps)], <<"Proceed.">> >>
    /\ Len(agentTrace) = 8

\* ------------------------------------------------ properties: rejected payloads
\* C26: a terminated directive whose payload is not accepted (an Edit without
\* a newline, a Patch with fewer than two lines or with an id that is no
\* integer) yields no action, the scan goes on after its closing tag, and a
\* well-formed directive that starts after it is extracted
C26_ResumeAfterRejected ==
    \A k \in 1..Len(trail) :
       trail[k].Outcome = "rejected" =>
          /\ trail[k].Tag \in {"EDIT", "PATCH"}
          /\ \A i \in 1..Len(actions) : actions[i].Open # trail[k].Open
          /\ pc # "scan" =>
                LET later == {i \in OpenPositions(response) : i > trail[k].Close}
                IN  (later # {} /\ WellFormedAt(SetMin(later)))
                       => \E i \in 1..Len(actions) : actions[i].Open = SetMin(later)

\* ------------------------------------------- properties: frame of a Patch
\* C27: a confirmed Patch of block k with non-blank content changes no other
\* block: the written file segments into the lines of the old blocks with
\* entry k replaced by the blocks of the content, ids counted from 0, and no
\* other file is touched
C27_OtherBlocksKept ==
    [][(PatchOfBlock /\ TrimSpace(Current.Content) # <<>>)
       => LET old == parseBlocks(fs[Current.Filename])
              new == parseBlocks(fs'[Current.Filename])
          IN  /\ LinesOf(new) = Spliced(LinesOf(old), Current.ID,
                                        LinesOf(parseBlocks(Current.Content)))
              /\ \A i \in 1..Len(new) : new[i].ID = i - 1
              /\ DOMAIN fs' = DOMAIN fs
              /\ \A name \in DOMAIN fs \ {Current.Filename} : fs'[name] = fs[name]]_vars

\* the middle block of a three-block file was replaced by content of two
\* parts: four blocks, the first and the last as they were
C27_Witness ==
    /\ next = 2
    /\ Len(parseBlocks(content)) = 3
    /\ actions[2].Kind = "PATCH" /\ actions[2].ID = 1
    /\ executed[2].Answer \in {"auto", "y"}
    /\ ~executed[2].Err
    /\ LinesOf(parseBlocks(fs[<<"f">>]))
         = <<parseBlocks(content)[1].Lines, <<<<"x">>>>, <<<<"y">>>>,
             parseBlocks(content)[3].Lines>>
    /\ fs[<<"r">>] = <<"a">>

\* ------------------------------------------- properties: no staleness check
\* a Read of the Patch's file was executed earlier in the batch
ReadBefore ==
    \E i \in 1..next :
       /\ actions[i].Kind = "READ"
       /\ actions[i].Filename = Current.Filename
       /\ ~executed[i].Err

\* the blocks that take the place of block k
Replacement(text) ==
    IF TrimSpace(text) = <<>> THEN <<>> ELSE LinesOf(parseBlocks(text))

\* C28: whatever happened to the file since it was read (an earlier action
\* of the batch, another process), a confirmed Patch with an id below the
\* current block count succeeds with the plain success text and changes the
\* block that holds the id when the Patch is executed
C28_NoStalenessCheck ==
    [][(PatchOfBlock /\ ReadBefore)
       => /\ ~Last(executed').Err
          /\ Last(executed').Output
               = <<"File ">> \o Current.Filename \o <<" patched successfully.">>
          /\ history' = Append(history, Message("user", Last(executed').Output))
          /\ LinesOf(parseBlocks(fs'[Current.Filename]))
               = Spliced(LinesOf(parseBlocks(fs[Current.Filename])), Current.ID,
                         Replacement(Current.Content))]_vars

\* a Read directly followed by a Patch of block 0 that succeeded, and the
\* file is not what replacing the block listed under 0 would have given:
\* another process had rewritten it in between
C28_Witness ==
    /\ next = 2 /\ Len(actions) = 2
    /\ actions[1].Kind = "READ" /\ actions[2].Kind = "PATCH" /\ actions[2].ID = 0
    /\ executed[2].Answer \in {"auto", "y"}
    /\ executed[2].Output = <<"File ", "f", " patched successfully.">>
    /\ Len(Listed(executed[1].Output)) = 3
    /\ LinesOf(parseBlocks(fs[<<"f">>]))
         # Spliced([j \in 1..3 |-> Listed(executed[1].Output)[j].Lines], 0,
                   Replacement(actions[2].Content))

\* ------------------------------------------- properties: result of a Run
\* C29: whenever a Run is next to be executed and is confirmed, a command
\* that fails gives a result with the error flag, the error text and the
\* output written before the failure, and a command that succeeds without
\* output gives the fixed "no output" text
C29_FailureKeepsOutput ==
    (pc = "exec" /\ next < Len(actions) /\ Current.Kind = "RUN")
    => \A answer \in Answers(config.AutoRun) \ {"n"}, outcome \in RunOutcomes :
          LET eff == RunExecute(Current, fs, shell, answer, outcome)
          IN  /\ Failed(outcome)
                 => /\ eff.Err
                    /\ Contains(eff.Output, "err")
                    /\ \A i \in 1..Len(Captured(outcome)) :
                          Contains(eff.Output, Captured(outcome)[i])
              /\ (~Failed(outcome) /\ Captured(outcome) = <<>>)
                 => eff.Output = <<"Command executed successfully (no output).">>

\* ------------------------------------------- properties: the history
\* C30: every step of the program (a send, the handling of one directive,
\* a tool-call iteration) leaves the history it found as a prefix of the
\* history it leaves: entries are added at the end, none is removed, moved
\* or rewritten
C30_AppendOnly ==
    [][/\ Len(history') >= Len(history)
       /\ SubSeq(history', 1, Len(history)) = history]_vars

\* ------------------------------------------- properties: spans of directives
\* C31: every extracted directive spans from its opening tag to a closing
\* tag of its kind after it, the spans follow each other in the response
\* without overlap, the cursor is past the last of them, and an opening tag
\* inside the span of an extracted directive is never taken as an active tag
C31_DisjointSpans ==
    /\ \A i \in 1..Len(actions) :
          /\ actions[i].Open < actions[i].Close
          /\ response[actions[i].Open + 1] = OpenTag(actions[i].Kind)
          /\ response[actions[i].Close + 1] = CloseTag(actions[i].Kind)
          /\ actions[i].Close < Cursor
    /\ \A i, j \in 1..Len(actions) : i < j => actions[i].Close < actions[j].Open
    /\ \A i \in 1..Len(actions), k \in 1..Len(trail) :
          ~(actions[i].Open < trail[k].Open /\ trail[k].Open < actions[i].Close)

\* <EDIT>, f, <RUN> ls </RUN>, </EDIT>: the scan returned the Edit alone, the
\* Run inside its body is part of the content written
C31_Witness ==
    /\ pc = "returned"
    /\ response \in NestedResponses
    /\ Len(actions) = 1 /\ Len(trail) = 1
    /\ actions[1].Kind = "EDIT"
    /\ Contains(actions[1].Content, "<RUN>") /\ Contains(actions[1].Content, "</RUN>")
    /\ shell = <<>>

\* ------------------------------------------- properties: [TOOL_CALL] and gating
\* C32: with autoEdit and autoRun off, a step in which the user does not
\* answer yes writes no file and runs no command, in the first handling of a
\* reply and in every tool-call iteration after it; an Edit, Patch or Run is
\* put to the user whether or not it is immediate, and when declined it is
\* skipped
C32_NoBypass ==
    [][(~config.AutoEdit /\ ~config.AutoRun)
       => /\ Executing({"EDIT", "PATCH", "RUN"})
             => /\ Last(executed').Asked
                /\ Last(executed').Answer \in {"y", "n"}
                /\ Last(executed').Answer = "n"
                      => IsSkipped(Last(executed').Output)
          /\ ~(Executing({"EDIT", "PATCH", "RUN"}) /\ Last(executed').Answer = "y")
             => fs' = fs /\ shell' = shell]_vars

\* in a tool-call iteration, both flags off: an immediate Run was declined,
\* the files are as at the start and no command has run
C32_Witness ==
    /\ ~config.AutoEdit /\ ~config.AutoRun
    /\ autoSends >= 1
    /\ executed # <<>>
    /\ Last(executed).Kind = "RUN" /\ Last(executed).Answer = "n"
    /\ actions[Len(executed)].IsToolCall
    /\ fs = InitFiles /\ shell = <<>>

====
